---- MODULE Spec2Model ----
(***************************************************************************)
(* Placement-rule validator (check.go) and keyspace transformer            *)
(* (enable.go, first program) of guo-shaoge/change_rules.                  *)
(*                                                                         *)
(* One behaviour is one migration session over one input document:        *)
(*   run "input"  : check.go  over the input document,                     *)
(*   transformer  : enable.go over the same document and a keyspace,       *)
(*   run "output" : check.go  over the document enable.go printed.         *)
(* Every loop iteration of either main is one action.  Go slices are      *)
(* modelled as headers (array, len) over a heap of backing arrays, so the  *)
(* truncate-and-append of enable.go:127-129 acts on shared storage as it   *)
(* does in Go.                                                             *)
(*                                                                         *)
(* src/enable.go holds a second main after line 138 that copies only the   *)
(* group and the id of each rule; the transformer modelled here is the     *)
(* first one (lines 1-137).                                                *)
(***************************************************************************)
EXTENDS Integers, Sequences, FiniteSets, TLC

\* ------------------------------------------------------------------ bounds
\* Longest input document (number of rules).
MaxRules == 2
\* Most spare capacity (cap - len) json.Unmarshal leaves in a decoded slice.
MaxSpare == 1

\* --------------------------------------------------------------- constants
In == "in"
NotIn == "notIn"
LabelKeyEngineRole == "engine_role"
LabelValueEngineRoleWrite == "write"
SourceGroup == "tiflash"
TargetGroup == "enable_s3_wn_region"
NewIndex == 1
NewCount == 1

tiflashConstraint == [Key |-> "engine", Op |-> In, Values |-> <<"tiflash">>]
wnConstraint == [Key |-> "engine_role", Op |-> In, Values |-> <<"write">>]

\* ----------------------------------------------------------------- strings
\* The characters of the strings whose content the programs look into.
Chars(s) ==
  CASE s = "keyspace-" -> <<"k","e","y","s","p","a","c","e","-">>
    [] s = "keyspace-id-" -> <<"k","e","y","s","p","a","c","e","-","i","d","-">>
    [] s = "-" -> <<"-">>
    [] s = "1" -> <<"1">>
    [] s = "id-1" -> <<"i","d","-","1">>
    [] s = "keyspace-1-a" -> <<"k","e","y","s","p","a","c","e","-","1","-","a">>
    [] s = "keyspace-id-1-b" ->
         <<"k","e","y","s","p","a","c","e","-","i","d","-","1","-","b">>
    [] s = "keyspace-10-c" -> <<"k","e","y","s","p","a","c","e","-","1","0","-","c">>

\* strings.Contains on character sequences.
Contains(s, sub) ==
  \E k \in 0..(Len(s) - Len(sub)) : SubSeq(s, k + 1, k + Len(sub)) = sub

\* fmt.Sprintf("keyspace-%s-", keyspace)
keyspacePrefix1(ks) == Chars("keyspace-") \o Chars(ks) \o Chars("-")
\* fmt.Sprintf("keyspace-id-%s-", keyspace)
keyspacePrefix2(ks) == Chars("keyspace-id-") \o Chars(ks) \o Chars("-")

\* Mutant of InScope: the second pattern is forgotten.
InScopePrefix1Only(id, ks) == Contains(Chars(id), keyspacePrefix1(ks))

InScope(id, ks) ==
  Contains(Chars(id), keyspacePrefix1(ks)) \/ Contains(Chars(id), keyspacePrefix2(ks))

\* ------------------------------------------------------------ input domain
\* Label constraints an input rule may carry: the well-formed exclusion, the
\* three ways enable.go:110 / check.go:94 call one malformed, and another key.
ExcludeWrite == [Key |-> "engine_role", Op |-> NotIn, Values |-> <<"write">>]
BadOp == [Key |-> "engine_role", Op |-> In, Values |-> <<"write">>]
BadLen == [Key |-> "engine_role", Op |-> NotIn, Values |-> <<"write", "read">>]
BadValue == [Key |-> "engine_role", Op |-> NotIn, Values |-> <<"read">>]
OtherKey == [Key |-> "engine", Op |-> In, Values |-> <<"tiflash">>]

\* Lists the programs accept: the exclusion is the first engine_role constraint.
GoodLists ==
  { <<ExcludeWrite>>, <<ExcludeWrite, BadOp>>, <<OtherKey, ExcludeWrite, BadLen>> }
\* Lists they reject: no engine_role constraint, or a malformed first one.
BadLists ==
  { <<>>, <<OtherKey>>, <<BadOp>>, <<BadLen>>, <<OtherKey, BadValue>>,
    <<BadValue, ExcludeWrite>> }
ConsLists == GoodLists \cup BadLists

GroupSet == { "tiflash", "other" }
IDSet == { "keyspace-1-a", "keyspace-id-1-b", "keyspace-10-c" }
KeyspaceSet == { "1", "id-1" }

\* The fields the programs pass through or overwrite, in two settings.
PlainProfile ==
  [index |-> 0, count |-> 3, start_key |-> "", end_key |-> "",
   role |-> "voter", location_labels |-> <<>>, isolation_level |-> ""]
RangeProfile ==
  [index |-> 5, count |-> 2, start_key |-> "7480", end_key |-> "7481",
   role |-> "learner", location_labels |-> <<"zone", "host">>,
   isolation_level |-> "zone"]
ProfileSet == { PlainProfile, RangeProfile }

\* One object of the input JSON array, by its wire names.
WireRule(g, id, p, cons) ==
  [group_id |-> g, id |-> id, index |-> p.index, start_key |-> p.start_key,
   end_key |-> p.end_key, role |-> p.role, count |-> p.count,
   label_constraints |-> cons, location_labels |-> p.location_labels,
   isolation_level |-> p.isolation_level]

\* The rules of the input documents: every group and constraint list on one
\* id (in scope of keyspace "1", out of scope of "id-1"), and every id and
\* profile on the rules the programs accept.
WireRuleSet ==
  { WireRule(g, "keyspace-1-a", PlainProfile, cons) : g \in GroupSet, cons \in ConsLists }
  \cup
  { WireRule("tiflash", id, p, cons) : id \in IDSet, p \in ProfileSet, cons \in GoodLists }

Documents == UNION { [1..n -> WireRuleSet] : n \in 0..MaxRules }

\* -------------------------------------------------------------------- JSON
\* A document on disk or on standard output: the JSON value null, or an array.
JsonNull == [null |-> TRUE, array |-> <<>>]
JsonArray(objs) == [null |-> FALSE, array |-> objs]

\* A Go slice of rules: nil, or a (possibly empty) sequence of elements.
NilRules == [nil |-> TRUE, elems |-> <<>>]
RulesOf(elems) == [nil |-> FALSE, elems |-> elems]

\* check.go: json.Unmarshal of one object into a Rule (check.go:48-66).
\* Slices are held by value here: check.go never writes to a rule.
CheckUnmarshalRule(w) ==
  [GroupID |-> w.group_id, ID |-> w.id, Index |-> w.index,
   StartKeyHex |-> w.start_key, EndKeyHex |-> w.end_key, Role |-> w.role,
   Count |-> w.count, LabelConstraints |-> w.label_constraints,
   LocationLabels |-> w.location_labels, IsolationLevel |-> w.isolation_level]

\* check.go:82-85: null leaves curRules nil, an array gives one Rule each.
CheckUnmarshal(doc) ==
  IF doc.null THEN NilRules
  ELSE RulesOf([k \in 1..Len(doc.array) |-> CheckUnmarshalRule(doc.array[k])])

\* --------------------------------------------------------- rule invariants
\* The scan of check.go:92-100 / enable.go:108-116: the index of the first
\* constraint keyed engine_role, 0 when the loop ends without finding one.
RECURSIVE ScanFrom(_, _)
ScanFrom(cons, k) ==
  IF k > Len(cons) THEN 0
  ELSE IF cons[k].Key = LabelKeyEngineRole THEN k
  ELSE ScanFrom(cons, k + 1)

FirstEngineRole(cons) == ScanFrom(cons, 1)

\* Mutant of Malformed: the number of values is not looked at.
MalformedAnyLen(con) ==
  \/ con.Op # NotIn
  \/ con.Values[1] # LabelValueEngineRoleWrite

\* check.go:94 / enable.go:110
Malformed(con) ==
  \/ con.Op # NotIn
  \/ Len(con.Values) # 1
  \/ con.Values[1] # LabelValueEngineRoleWrite

\* A panic value: the format string and the values formatted into it.
NoPanic == [msg |-> "", args |-> <<>>]
GroupPanic == [msg |-> "got rule that are not tiflash group", args |-> <<>>]
InvalidPanic(shown) == [msg |-> "invalid rule: %v", args |-> <<shown>>]
MissingPanic(fmt, shown) == [msg |-> fmt, args |-> <<shown>>]

CheckMissingFmt == "this rule doesn't disable wn, ignore: %v"
EnableMissingFmt == "rule should have engine_role constraints: %v"

\* Mutant of RuleFault: the constraint scan runs before the group check.
RuleFaultConsFirst(groupID, cons, shown, missingFmt) ==
  LET k == FirstEngineRole(cons) IN
  IF k = 0 THEN MissingPanic(missingFmt, shown)
  ELSE IF Malformed(cons[k]) THEN InvalidPanic(shown)
  ELSE IF groupID # SourceGroup THEN GroupPanic
  ELSE NoPanic

\* The checks of one loop iteration (check.go:88-103, enable.go:104-119) on a
\* rule whose constraints are cons; shown is the rule as %v prints it.
RuleFault(groupID, cons, shown, missingFmt) ==
  IF groupID # SourceGroup THEN GroupPanic
  ELSE LET k == FirstEngineRole(cons) IN
       IF k = 0 THEN MissingPanic(missingFmt, shown)
       ELSE IF Malformed(cons[k]) THEN InvalidPanic(shown)
       ELSE NoPanic

\* ------------------------------------------------------------------- state
VARIABLES
  keyspace,   \* os.Args[2] of enable.go
  input,      \* the input document (os.Args[1] of both programs)
  chk,        \* the two runs of check.go: pc, curRules, loop index, stdout, panic
  tpc,        \* enable.go: "idle", "loop", "done" or "panic"
  curRules,   \* enable.go: the parsed rules, LabelConstraints as slice headers
  heap,       \* enable.go: backing arrays of the LabelConstraints slices
  ti,         \* enable.go: index of the rule the loop is at
  newRules,   \* enable.go: the output slice
  tout,       \* enable.go: documents printed to standard output
  terr        \* enable.go: the panic value, NoPanic if none

vars == <<keyspace, input, chk, tpc, curRules, heap, ti, newRules, tout, terr>>
tvars == <<tpc, curRules, heap, ti, newRules, tout, terr>>

Runs == { "input", "output" }
SuccessLine == "check done, all rules has engine_role constraints"

IdleCheck == [pc |-> "idle", curRules |-> NilRules, i |-> 1, out |-> <<>>, err |-> NoPanic]

Init ==
  /\ keyspace \in KeyspaceSet
  /\ input \in { JsonArray(d) : d \in Documents }
  /\ chk = [r \in Runs |-> IdleCheck]
  /\ tpc = "idle"
  /\ curRules = NilRules
  /\ heap = <<>>
  /\ ti = 1
  /\ newRules = NilRules
  /\ tout = <<>>
  /\ terr = NoPanic

\* --------------------------------------------------------------- check.go
\* The document a run of check.go reads: the input, or what enable.go printed.
DocOf(r) == IF r = "input" THEN input ELSE tout[1]

\* check.go:77-85: read and parse the document.
CheckStart(r) ==
  /\ chk[r].pc = "idle"
  /\ r = "output" => (tpc = "done" /\ Len(tout) = 1)
  /\ chk' = [chk EXCEPT ![r] = [@ EXCEPT !.pc = "loop",
                                         !.curRules = CheckUnmarshal(DocOf(r))]]
  /\ UNCHANGED <<keyspace, input, tvars>>

\* check.go:87-104: one iteration of the loop.
CheckRule(r) ==
  /\ chk[r].pc = "loop"
  /\ chk[r].i <= Len(chk[r].curRules.elems)
  /\ LET rule == chk[r].curRules.elems[chk[r].i]
         fault == RuleFault(rule.GroupID, rule.LabelConstraints, rule, CheckMissingFmt)
     IN  IF fault # NoPanic
         THEN chk' = [chk EXCEPT ![r] = [@ EXCEPT !.pc = "panic", !.err = fault]]
         ELSE chk' = [chk EXCEPT ![r] = [@ EXCEPT !.i = @ + 1]]
  /\ UNCHANGED <<keyspace, input, tvars>>

\* check.go:105: the loop ended, print the success line.
CheckDone(r) ==
  /\ chk[r].pc = "loop"
  /\ chk[r].i > Len(chk[r].curRules.elems)
  /\ chk' = [chk EXCEPT ![r] = [@ EXCEPT !.pc = "done",
                                         !.out = Append(@, SuccessLine)]]
  /\ UNCHANGED <<keyspace, input, tvars>>

\* --------------------------------------------------------------- enable.go
\* A slice header over the heap: the elements are heap[arr][1..len].
Deref(h, hdr) == SubSeq(h[hdr.arr], 1, hdr.len)

\* enable.go: json.Unmarshal of the k-th object into a Rule (enable.go:49-67);
\* its label_constraints are decoded into backing array k.
EnableUnmarshalRule(w, k) ==
  [GroupID |-> w.group_id, ID |-> w.id, Index |-> w.index,
   StartKeyHex |-> w.start_key, EndKeyHex |-> w.end_key, Role |-> w.role,
   Count |-> w.count,
   LabelConstraints |-> [arr |-> k, len |-> Len(w.label_constraints)],
   LocationLabels |-> w.location_labels, IsolationLevel |-> w.isolation_level]

\* enable.go:86-89
EnableUnmarshal(doc) ==
  IF doc.null THEN NilRules
  ELSE RulesOf([k \in 1..Len(doc.array) |-> EnableUnmarshalRule(doc.array[k], k)])

\* The heap after enable.go:86-89: array k holds the constraints of object k;
\* arrays n+1..2n are the ones append may allocate later, still empty.
UnmarshalHeap(doc) ==
  LET n == Len(doc.array) IN
  [a \in 1..(2 * n) |-> IF a <= n THEN doc.array[a].label_constraints ELSE <<>>]

\* A rule as fmt's %v prints it: slice contents, not slice headers.
Show(rule, h) == [rule EXCEPT !.LabelConstraints = Deref(h, rule.LabelConstraints)]

\* Mutant of Truncate: the slice is not truncated before the appends.
TruncateKeep(hdr) == hdr

\* enable.go:127: rule.LabelConstraints[:0] keeps the array, drops the length.
Truncate(hdr) == [hdr EXCEPT !.len = 0]

\* Writing slot k of a backing array whose first Len(arr) slots were written.
Store(arr, k, con) == IF k <= Len(arr) THEN [arr EXCEPT ![k] = con] ELSE Append(arr, con)

\* Go's append(slice, con) on a slice of capacity cap: in place when there is
\* room, else the elements are copied to the array fresh and con is added.
AppendCon(h, hdr, con, cap, fresh) ==
  IF hdr.len < cap
  THEN [heap |-> [h EXCEPT ![hdr.arr] = Store(@, hdr.len + 1, con)],
        hdr |-> [hdr EXCEPT !.len = @ + 1]]
  ELSE [heap |-> [h EXCEPT ![fresh] = Append(Deref(h, hdr), con)],
        hdr |-> [arr |-> fresh, len |-> hdr.len + 1]]

\* enable.go:127-129 on a slice of capacity cap: truncate, append wnConstraint,
\* append tiflashConstraint.
RewriteConstraints(h, hdr, cap, fresh) ==
  LET s1 == AppendCon(h, Truncate(hdr), wnConstraint, cap, fresh)
      cap1 == IF s1.hdr.arr = hdr.arr THEN cap ELSE s1.hdr.len
  IN  AppendCon(s1.heap, s1.hdr, tiflashConstraint, cap1, fresh)

\* Mutant of RewriteRule: the group is left as it was.
RewriteRuleKeepGroup(rule, newHdr) ==
  [rule EXCEPT !.Index = NewIndex, !.Count = NewCount, !.LabelConstraints = newHdr]

\* enable.go:124-126 and 127-129 on the loop's copy of the rule.
RewriteRule(rule, newHdr) ==
  [rule EXCEPT !.GroupID = TargetGroup, !.Index = NewIndex, !.Count = NewCount,
               !.LabelConstraints = newHdr]

\* Mutant of EnableMarshalRule: Role is tagged json:"-" and comes out empty.
EnableMarshalRuleNoRole(rule, h) ==
  [group_id |-> rule.GroupID, id |-> rule.ID, index |-> rule.Index,
   start_key |-> rule.StartKeyHex, end_key |-> rule.EndKeyHex, role |-> "",
   count |-> rule.Count, label_constraints |-> Deref(h, rule.LabelConstraints),
   location_labels |-> rule.LocationLabels, isolation_level |-> rule.IsolationLevel]

\* enable.go:49-67, 132: json.MarshalIndent of one Rule (index 0 stands for
\* an omitted index).
EnableMarshalRule(rule, h) ==
  [group_id |-> rule.GroupID, id |-> rule.ID, index |-> rule.Index,
   start_key |-> rule.StartKeyHex, end_key |-> rule.EndKeyHex, role |-> rule.Role,
   count |-> rule.Count, label_constraints |-> Deref(h, rule.LabelConstraints),
   location_labels |-> rule.LocationLabels, isolation_level |-> rule.IsolationLevel]

\* enable.go:132: a nil slice is encoded as null, any other as an array.
EnableMarshal(rs, h) ==
  IF rs.nil THEN JsonNull
  ELSE JsonArray([k \in 1..Len(rs.elems) |-> EnableMarshalRule(rs.elems[k], h)])

\* enable.go:78-89: read and parse the document (after the check of the input).
EnableStart ==
  /\ tpc = "idle"
  /\ chk["input"].pc \in { "done", "panic" }
  /\ tpc' = "loop"
  /\ curRules' = EnableUnmarshal(input)
  /\ heap' = UnmarshalHeap(input)
  /\ UNCHANGED <<keyspace, input, chk, ti, newRules, tout, terr>>

\* Mutant of EnableVerdict: the scope filter runs before the checks.
EnableVerdictFilterFirst(rule, h, ks) ==
  LET fault == RuleFault(rule.GroupID, Deref(h, rule.LabelConstraints),
                         Show(rule, h), EnableMissingFmt)
  IN  IF ~InScope(rule.ID, ks) THEN [kind |-> "skip", err |-> NoPanic]
      ELSE IF fault # NoPanic THEN [kind |-> "panic", err |-> fault]
      ELSE [kind |-> "rewrite", err |-> NoPanic]

\* enable.go:104-122: what one iteration decides for its rule: panic, skip
\* the rule (continue), or rewrite it.
EnableVerdict(rule, h, ks) ==
  LET fault == RuleFault(rule.GroupID, Deref(h, rule.LabelConstraints),
                         Show(rule, h), EnableMissingFmt)
  IN  IF fault # NoPanic THEN [kind |-> "panic", err |-> fault]
      ELSE IF ~InScope(rule.ID, ks) THEN [kind |-> "skip", err |-> NoPanic]
      ELSE [kind |-> "rewrite", err |-> NoPanic]

\* enable.go:103-131: one iteration of the loop.  The capacity json.Unmarshal
\* gave the rule's constraint slice depends on the Go release; it is chosen
\* here, where it is first consulted.
EnableRule ==
  /\ tpc = "loop"
  /\ ti <= Len(curRules.elems)
  /\ LET rule == curRules.elems[ti]
         hdr == rule.LabelConstraints
         verdict == EnableVerdict(rule, heap, keyspace)
     IN  CASE verdict.kind = "panic" ->
                /\ tpc' = "panic"
                /\ terr' = verdict.err
                /\ UNCHANGED <<ti, heap, newRules>>
           [] verdict.kind = "skip" ->
                /\ ti' = ti + 1
                /\ UNCHANGED <<tpc, terr, heap, newRules>>
           [] verdict.kind = "rewrite" ->
                \E cap \in hdr.len..(hdr.len + MaxSpare) :
                  LET s == RewriteConstraints(heap, hdr, cap, Len(curRules.elems) + ti)
                  IN  /\ heap' = s.heap
                      /\ newRules' = RulesOf(Append(newRules.elems,
                                                    RewriteRule(rule, s.hdr)))
                      /\ ti' = ti + 1
                      /\ UNCHANGED <<tpc, terr>>
  /\ UNCHANGED <<keyspace, input, chk, curRules, tout>>

\* enable.go:132-136: the loop ended, encode and print newRules.
EnableDone ==
  /\ tpc = "loop"
  /\ ti > Len(curRules.elems)
  /\ tpc' = "done"
  /\ tout' = Append(tout, EnableMarshal(newRules, heap))
  /\ UNCHANGED <<keyspace, input, chk, curRules, heap, ti, newRules, terr>>

Next ==
  \/ \E r \in Runs : CheckStart(r)
  \/ \E r \in Runs : CheckRule(r)
  \/ \E r \in Runs : CheckDone(r)
  \/ EnableStart
  \/ EnableRule
  \/ EnableDone

Spec == Init /\ [][Next]_vars

\* ------------------------------------------------------------- properties
\* The vocabulary of the properties, written out with the literals of the
\* documents rather than with the operators of the programs.

Terminated(pc) == pc \in { "done", "panic" }

\* The first constraint keyed engine_role is {notIn, ["write"]}.
HasExclusion(cons) ==
  \E k \in 1..Len(cons) :
    /\ cons[k].Key = "engine_role"
    /\ \A j \in 1..(k - 1) : cons[j].Key # "engine_role"
    /\ cons[k].Op = "notIn"
    /\ cons[k].Values = <<"write">>

WellFormed(w) == w.group_id = "tiflash" /\ HasExclusion(w.label_constraints)

AllWellFormed(doc) == \A k \in 1..Len(doc.array) : WellFormed(doc.array[k])

\* pat occurs in s at some offset a.
HasSubstring(s, pat) ==
  \E a \in 0..(Len(s) - Len(pat)) : \A j \in 1..Len(pat) : s[a + j] = pat[j]

\* id contains "keyspace-<ks>-" or "keyspace-id-<ks>-".
Matches(id, ks) ==
  \/ HasSubstring(Chars(id), Chars("keyspace-") \o Chars(ks) \o Chars("-"))
  \/ HasSubstring(Chars(id), Chars("keyspace-id-") \o Chars(ks) \o Chars("-"))

\* The input rules in scope, in input order.
KeptInput ==
  LET Kept(w) == Matches(w.id, keyspace) IN SelectSeq(input.array, Kept)

\* The rules of the document enable.go printed.
Output == tout[1].array

\* The message the first violation of rule w calls for.
ExpectedMsg(w, missingFmt) ==
  IF w.group_id # "tiflash" THEN "got rule that are not tiflash group"
  ELSE IF \A k \in 1..Len(w.label_constraints) :
            w.label_constraints[k].Key # "engine_role"
  THEN missingFmt
  ELSE "invalid rule: %v"

\* C1: a run of check.go ends with the success line if and only if every
\* rule of its document has group "tiflash" and its first engine_role
\* constraint is {notIn, ["write"]}; later constraints do not matter, the
\* empty list is accepted, and a failed run prints nothing.
C1_ValidatorAccepts ==
  \A r \in Runs :
    Terminated(chk[r].pc) =>
      /\ (chk[r].pc = "done") <=> AllWellFormed(DocOf(r))
      /\ chk[r].pc = "done" => chk[r].out = <<SuccessLine>>
      /\ chk[r].pc = "panic" => chk[r].out = <<>>

\* C1 witness: an accepted document with a rule whose second constraint is a
\* malformed engine_role constraint.
C1_Witness ==
  /\ chk["input"].pc = "done"
  /\ \E k \in 1..Len(input.array) :
       LET cons == input.array[k].label_constraints IN
       /\ Len(cons) = 2
       /\ cons[2].Key = "engine_role"
       /\ cons[2].Op = "in"

\* C2: enable.go panics exactly when check.go panics on the same document,
\* that is, exactly when some rule (in scope or not) is not well formed, and
\* a run that panics prints no document.
C2_SameVerdict ==
  Terminated(tpc) =>
    /\ (tpc = "panic") <=> (chk["input"].pc = "panic")
    /\ (tpc = "panic") <=> ~AllWellFormed(input)
    /\ tpc = "panic" => tout = <<>>

\* C2 witness: both programs panicked, and the rule enable.go panicked at is
\* out of scope.
C2_Witness ==
  /\ tpc = "panic"
  /\ chk["input"].pc = "panic"
  /\ ~Matches(input.array[ti].id, keyspace)

\* C3: a completed run of enable.go prints one rule per in-scope input rule
\* and none for any other, in input order; the output is no longer than the
\* input and the id of a dropped rule is not in the output.
C3_OutputIsFilter ==
  tpc = "done" =>
    /\ Len(Output) = Len(KeptInput)
    /\ \A k \in 1..Len(Output) : Output[k].id = KeptInput[k].id
    /\ Len(Output) <= Len(input.array)
    /\ \A k \in 1..Len(input.array) :
         ~Matches(input.array[k].id, keyspace) =>
           \A j \in 1..Len(Output) : Output[j].id # input.array[k].id

\* C3 witness: a completed run over two rules that kept one and dropped one.
C3_Witness ==
  /\ tpc = "done"
  /\ Len(input.array) = 2
  /\ Len(Output) = 1

\* C4: every output rule, in newRules during the run and in the printed
\* document, has group "enable_s3_wn_region", index 1, count 1 and exactly
\* the constraints {engine_role in [write]}, {engine in [tiflash]}, in
\* this order.
C4_RewrittenShape ==
  LET Two == << [Key |-> "engine_role", Op |-> "in", Values |-> <<"write">>],
                [Key |-> "engine", Op |-> "in", Values |-> <<"tiflash">>] >>
  IN  /\ \A k \in 1..Len(newRules.elems) :
           /\ newRules.elems[k].GroupID = "enable_s3_wn_region"
           /\ newRules.elems[k].Index = 1
           /\ newRules.elems[k].Count = 1
           /\ Deref(heap, newRules.elems[k].LabelConstraints) = Two
      /\ tpc = "done" =>
           \A k \in 1..Len(Output) :
             /\ Output[k].group_id = "enable_s3_wn_region"
             /\ Output[k].index = 1
             /\ Output[k].count = 1
             /\ Output[k].label_constraints = Two

\* C4 witness: a printed rule whose source had index 5, count 2 and two
\* constraints.
C4_Witness ==
  /\ tpc = "done"
  /\ Len(Output) = 2
  /\ input.array[2].index = 5
  /\ input.array[2].count = 2
  /\ Len(input.array[2].label_constraints) = 2

\* C5: the k-th output rule has the id, start key, end key, role, location
\* labels and isolation level of the k-th in-scope input rule.
C5_PassThrough ==
  tpc = "done" =>
    /\ Len(Output) = Len(KeptInput)
    /\ \A k \in 1..Len(Output) :
         /\ Output[k].id = KeptInput[k].id
         /\ Output[k].start_key = KeptInput[k].start_key
         /\ Output[k].end_key = KeptInput[k].end_key
         /\ Output[k].role = KeptInput[k].role
         /\ Output[k].location_labels = KeptInput[k].location_labels
         /\ Output[k].isolation_level = KeptInput[k].isolation_level

\* C5 witness: two printed rules with different pass-through fields.
C5_Witness ==
  /\ tpc = "done"
  /\ Len(Output) = 2
  /\ Output[1].role = "learner"
  /\ Output[1].location_labels = <<"zone", "host">>
  /\ Output[2].role = "voter"

\* C6 (as claimed): every panic of check.go or enable.go over a rule carries
\* that rule's content.
C6_ErrorsNameRule ==
  /\ \A r \in Runs :
       chk[r].pc = "panic" =>
         chk[r].err.args = <<CheckUnmarshalRule(DocOf(r).array[chk[r].i])>>
  /\ tpc = "panic" => terr.args = <<CheckUnmarshalRule(input.array[ti])>>

\* C7: no output rule of enable.go is well formed for check.go (its group is
\* not "tiflash" and its engine_role constraint has op in), so check.go over
\* the printed document panics at the group check unless the document has no
\* rule, and accepts it only then.
C7_NotClosed ==
  /\ tpc = "done" =>
       \A k \in 1..Len(Output) :
         /\ Output[k].group_id # "tiflash"
         /\ \E c \in 1..Len(Output[k].label_constraints) :
              /\ Output[k].label_constraints[c].Key = "engine_role"
              /\ Output[k].label_constraints[c].Op = "in"
         /\ ~WellFormed(Output[k])
  /\ Terminated(chk["output"].pc) =>
       /\ (chk["output"].pc = "done") <=> (Len(Output) = 0)
       /\ chk["output"].pc = "panic" =>
            /\ chk["output"].i = 1
            /\ chk["output"].err.msg = "got rule that are not tiflash group"

\* C7 witness: check.go panicked over a document enable.go printed.
C7_Witness ==
  /\ chk["input"].pc = "done"
  /\ tpc = "done"
  /\ chk["output"].pc = "panic"

\* C8 (as claimed): the document a completed run of enable.go prints is a
\* JSON array, never null.
C8_AlwaysArray == tpc = "done" => (Len(tout) = 1 /\ ~tout[1].null)

\* C9 (as claimed): at every point of a run of enable.go each rule of
\* curRules, the elements of its LabelConstraints included, is what was
\* parsed from the input document.
C9_InputUntouched ==
  tpc # "idle" =>
    \A k \in 1..Len(curRules.elems) :
      Show(curRules.elems[k], heap) = CheckUnmarshalRule(input.array[k])

\* C10: both programs examine the rules in input order, the group before the
\* constraints; every rule before the loop index is well formed; a run that
\* panicked stands at the first rule that is not, with the message that
\* rule's first violation calls for; and nothing is printed by a run that is
\* still looping or has panicked.
C10_FailFast ==
  /\ \A r \in Runs :
       chk[r].pc # "idle" =>
         LET rules == DocOf(r).array
             i == chk[r].i
         IN  /\ i \in 1..(Len(rules) + 1)
             /\ \A k \in 1..(i - 1) : WellFormed(rules[k])
             /\ chk[r].pc = "loop" => (chk[r].out = <<>> /\ chk[r].err = NoPanic)
             /\ chk[r].pc = "done" => i = Len(rules) + 1
             /\ chk[r].pc = "panic" =>
                  /\ i <= Len(rules)
                  /\ ~WellFormed(rules[i])
                  /\ chk[r].err.msg =
                       ExpectedMsg(rules[i], "this rule doesn't disable wn, ignore: %v")
                  /\ chk[r].out = <<>>
  /\ tpc # "idle" =>
       LET rules == input.array IN
       /\ ti \in 1..(Len(rules) + 1)
       /\ \A k \in 1..(ti - 1) : WellFormed(rules[k])
       /\ tpc = "loop" => (tout = <<>> /\ terr = NoPanic)
       /\ tpc = "done" => (ti = Len(rules) + 1 /\ Len(tout) = 1)
       /\ tpc = "panic" =>
            /\ ti <= Len(rules)
            /\ ~WellFormed(rules[ti])
            /\ terr.msg =
                 ExpectedMsg(rules[ti], "rule should have engine_role constraints: %v")
            /\ tout = <<>>

\* C10 witness: both programs panicked at the second rule, which has the
\* wrong group and no engine_role constraint.
C10_Witness ==
  /\ chk["input"].pc = "panic"
  /\ chk["input"].i = 2
  /\ tpc = "panic"
  /\ ti = 2
  /\ input.array[2].group_id = "other"
  /\ ~HasExclusion(input.array[2].label_constraints)

====
